---- MODULE Spec2Model ----
(***************************************************************************)
(* The presence-and-delivery core of src/server.js: the socket.io handlers *)
(* register, privateMessage, messageStatusUpdate, typing and disconnect,   *)
(* the onlineUsers map they share, the Message collection they persist to, *)
(* and the GET /api/messages/:userId route that marks a thread read.       *)
(*                                                                         *)
(* Every async handler is cut at its awaits.  A store operation takes      *)
(* effect in a step of its own, between the step that issues it and the    *)
(* step that resumes the handler, so that other handlers and other store   *)
(* operations can fall on either side of it.                               *)
(***************************************************************************)
EXTENDS Integers, Sequences, FiniteSets, TLC

\* Bounds: the number of client events (socket events and thread fetches)
\* one behaviour handles, and the number of handlers suspended at one time.
MaxEvents == 3
MaxTasks == 2

\* The connections: socket.io gives each a fresh socket.id.
Sockets == {"s1", "s2"}

\* Ids for which the User collection holds a document, and one well-formed
\* id for which it holds none.
Users == {"A", "B"}
Ids == Users \cup {"X"}

None == "none"

\* messageSchema.status enum.
Statuses == {"sent", "delivered", "read"}

\* Message bodies are sequences of characters: SP is a whitespace character,
\* CH is any other.
SP == " "
CH == "a"
Bodies == {<< >>, <<SP>>, <<SP, CH, SP>>}

VARIABLES
    onlineUsers,        \* the Map userId -> socket.id
    userId,             \* socket.userId of every socket
    closed,             \* the sockets whose transport has closed
    messages,           \* the Message collection, in insertion (natural) order;
                        \* a document's _id is its index
    inbox,              \* per socket, the packets its client has been sent
    tasks,              \* the handler invocations suspended at an await
    now,                \* the last value new Date() returned
    nEvents,            \* client events handled so far
    logged,             \* the refusal lines console.log has written
    sendLog             \* history: per message, how its send went

vars == <<onlineUsers, userId, closed, messages, inbox, tasks, now, nEvents,
          logged, sendLog>>

----------------------------------------------------------------------------
\* Pure helpers

RECURSIVE trimStart(_)
trimStart(b) == IF b # << >> /\ Head(b) = SP THEN trimStart(Tail(b)) ELSE b

RECURSIVE trimEnd(_)
trimEnd(b) ==
    IF b # << >> /\ b[Len(b)] = SP THEN trimEnd(SubSeq(b, 1, Len(b) - 1)) ELSE b

\* String.prototype.trim
trim(b) == trimEnd(trimStart(b))

\* A suspended handler: which handler (h), its invocation number (n), its
\* socket (s), where it resumes (pc), and its locals.  Two fields are history:
\* bound (privateMessage: the sender's id was in onlineUsers on arrival) and
\* mark (register: how many packets the socket had been sent on arrival).
Task(h, n, s, pc, f) ==
    [h |-> h, n |-> n, s |-> s, pc |-> pc,
     uid |-> f.uid, to |-> f.to, body |-> f.body, bound |-> f.bound,
     from |-> f.from, ts |-> f.ts, id |-> f.id, rcpt |-> f.rcpt,
     fromId |-> f.fromId, pending |-> f.pending, mark |-> f.mark]

NoFields ==
    [uid |-> None, to |-> None, body |-> << >>, bound |-> FALSE,
     from |-> None, ts |-> 0, id |-> 0, rcpt |-> None, fromId |-> None,
     pending |-> << >>, mark |-> 0]

\* socket.emit / io.to(id).emit: a packet for a closed socket goes nowhere.
Emit(inb, s, packet) ==
    IF s \in closed THEN inb ELSE [inb EXCEPT ![s] = Append(@, packet)]

\* The privateMessage payload.  The replayed payload (lines 363-370) has no
\* status field: status is None there.
MessagePacket(id, fromId, status, sent) ==
    [ev |-> "privateMessage", id |-> id, from |-> fromId, status |-> status,
     sent |-> sent]

\* The typing payload; data.typing is passed through and not modelled.
TypingPacket(from) ==
    [ev |-> "typing", id |-> 0, from |-> from, status |-> None, sent |-> FALSE]

ErrorPacket ==
    [ev |-> "error", id |-> 0, from |-> None, status |-> None, sent |-> FALSE]

----------------------------------------------------------------------------
Init ==
    /\ onlineUsers = [u \in Ids |-> None]
    /\ userId = [s \in Sockets |-> None]
    /\ closed = {}
    /\ messages = << >>
    /\ inbox = [s \in Sockets |-> << >>]
    /\ tasks = {}
    /\ now = 0
    /\ nEvents = 0
    /\ logged = {}
    /\ sendLog = << >>

\* The state after socket s1 has registered user A and its register handler
\* has run to its end, with nothing pending to replay; n is the number of
\* client events counted as handled.
Registered(n) ==
    /\ onlineUsers = [u \in Ids |-> IF u = "A" THEN "s1" ELSE None]
    /\ userId = [s \in Sockets |-> IF s = "s1" THEN "A" ELSE None]
    /\ closed = {}
    /\ messages = << >>
    /\ inbox = [s \in Sockets |-> << >>]
    /\ tasks = {}
    /\ now = 0
    /\ nEvents = n
    /\ logged = {}
    /\ sendLog = << >>

\* That state as Spec reaches it, the registration counted.
InitRegistered == Registered(1)

\* That state with the whole budget of events still to come.
InitOnline == Registered(0)

\* A client event is handled: the budget of the model.
Admit ==
    /\ nEvents < MaxEvents
    /\ nEvents' = nEvents + 1

----------------------------------------------------------------------------
\* socket.on("register")

\* Message.find({to: userId, seen: false}): no sort, so the documents come in
\* natural order.  The result is the list of their _ids.
findPending(uid) ==
    SelectSeq([i \in 1..Len(messages) |-> i],
              LAMBDA i: messages[i].to = uid /\ ~messages[i].seen)

\* pendingMessages.forEach(msg => socket.emit(...)).  populate('from') leaves
\* msg.from null when no User document has that id; msg.from._id then throws,
\* which ends the forEach.
RECURSIVE drain(_, _, _)
drain(inb, s, pending) ==
    IF pending = << >> \/ messages[Head(pending)].from \notin Users
    THEN inb
    ELSE drain(Emit(inb, s, MessagePacket(Head(pending),
                                          messages[Head(pending)].from,
                                          None, FALSE)),
               s, Tail(pending))

\* onlineUsers.set(userId, socket.id)
bind(uid, s) == [onlineUsers EXCEPT ![uid] = s]

\* Lines 346-349: bind, remember the identity on the socket, then await.
register(s, uid) ==
    /\ s \notin closed
    /\ Admit /\ Cardinality(tasks) < MaxTasks
    /\ onlineUsers' = bind(uid, s)
    /\ userId' = [userId EXCEPT ![s] = uid]
    /\ tasks' = tasks \cup
          {Task("register", nEvents + 1, s, "find",
                [NoFields EXCEPT !.uid = uid, !.mark = Len(inbox[s])])}
    /\ UNCHANGED <<closed, messages, inbox, now, logged, sendLog>>

\* Lines 349-360: User.findByIdAndUpdate (the online flag is not modelled),
\* then the store answers Message.find.  Either await may reject, which ends
\* the handler in its catch.
registerFind(t, ok) ==
    /\ t \in tasks /\ t.h = "register" /\ t.pc = "find"
    /\ tasks' = IF ok
                THEN (tasks \ {t}) \cup
                     {[t EXCEPT !.pc = "drain", !.pending = findPending(t.uid)]}
                ELSE tasks \ {t}
    /\ UNCHANGED <<onlineUsers, userId, closed, messages, inbox, now, nEvents,
                   logged, sendLog>>

\* Mutant of registerDrain: the replay marks what it pushes delivered.
registerDrainMarking(t) ==
    /\ t \in tasks /\ t.h = "register" /\ t.pc = "drain"
    /\ inbox' = drain(inbox, t.s, t.pending)
    /\ messages' = [i \in 1..Len(messages) |->
                       IF \E k \in 1..Len(t.pending) : t.pending[k] = i
                       THEN [messages[i] EXCEPT !.status = "delivered"]
                       ELSE messages[i]]
    /\ tasks' = tasks \ {t}
    /\ UNCHANGED <<onlineUsers, userId, closed, now, nEvents, logged, sendLog>>

\* Lines 362-371: the handler resumes and emits the pending messages.
registerDrain(t) ==
    /\ t \in tasks /\ t.h = "register" /\ t.pc = "drain"
    /\ inbox' = drain(inbox, t.s, t.pending)
    /\ tasks' = tasks \ {t}
    /\ UNCHANGED <<onlineUsers, userId, closed, messages, now, nEvents,
                   logged, sendLog>>

----------------------------------------------------------------------------
\* socket.on("disconnect")

\* Mutant of unbind: the entry is flipped instead of deleted.
unbindToggle(s) ==
    IF userId[s] # None
    THEN [onlineUsers EXCEPT ![userId[s]] = IF @ = None THEN s ELSE None]
    ELSE onlineUsers

\* if (socket.userId) onlineUsers.delete(socket.userId)
unbind(s) ==
    IF userId[s] # None
    THEN [onlineUsers EXCEPT ![userId[s]] = None]
    ELSE onlineUsers

disconnect(s) ==
    /\ s \notin closed
    /\ closed' = closed \cup {s}
    /\ onlineUsers' = unbind(s)
    /\ UNCHANGED <<userId, messages, inbox, tasks, now, nEvents, logged,
                   sendLog>>

----------------------------------------------------------------------------
\* socket.on("typing")

\* Mutant of typing: a signal for an unbound recipient comes back to the
\* sender.
typingEcho(s, to) ==
    /\ s \notin closed
    /\ Admit
    /\ inbox' = Emit(inbox, IF onlineUsers[to] # None THEN onlineUsers[to] ELSE s,
                     TypingPacket(userId[s]))
    /\ UNCHANGED <<onlineUsers, userId, closed, messages, tasks, now, logged,
                   sendLog>>

\* Lines 472-480.
typing(s, to) ==
    /\ s \notin closed
    /\ Admit
    /\ inbox' = IF onlineUsers[to] # None
                THEN Emit(inbox, onlineUsers[to], TypingPacket(userId[s]))
                ELSE inbox
    /\ UNCHANGED <<onlineUsers, userId, closed, messages, tasks, now, logged,
                   sendLog>>

----------------------------------------------------------------------------
\* socket.on("messageStatusUpdate"): Message.findByIdAndUpdate(messageId,
\* {status}), with no look at the stored status.

updateStatus(messageId, status) ==
    [messages EXCEPT ![messageId].status = status]

messageStatusUpdate(s, messageId, status) ==
    /\ s \notin closed
    /\ Admit
    /\ messageId \in 1..Len(messages)
    /\ messages' = updateStatus(messageId, status)
    /\ UNCHANGED <<onlineUsers, userId, closed, inbox, tasks, now, logged,
                   sendLog>>

----------------------------------------------------------------------------
\* GET /api/messages/:userId.  The thread it returns is not modelled; its
\* Message.updateMany({from: other, to: me, seen: false},
\*                    {seen: true, status: 'read'}) is.

markRead(myId, otherUserId) ==
    [i \in 1..Len(messages) |->
        IF messages[i].from = otherUserId /\ messages[i].to = myId
           /\ ~messages[i].seen
        THEN [messages[i] EXCEPT !.seen = TRUE, !.status = "read"]
        ELSE messages[i]]

getMessages(myId, otherUserId) ==
    /\ Admit
    /\ messages' = markRead(myId, otherUserId)
    /\ UNCHANGED <<onlineUsers, userId, closed, inbox, tasks, now, logged,
                   sendLog>>

----------------------------------------------------------------------------
\* socket.on("privateMessage")

\* Mutant of isBlank: the test without the trim.
isEmpty(message) == message = << >>

\* !message || !message.trim()
isBlank(message) == message = << >> \/ trim(message) = << >>

\* Lines 383-400: what the handler logs when it returns early.  The third
\* return follows the await of User.findById(socket.userId); nothing is done
\* after it, so it is taken here, where the id is read.
refusal(s, message) ==
    IF isBlank(message) THEN "Empty message"
    ELSE IF userId[s] = None THEN "User not registered"
    ELSE IF userId[s] \notin Users THEN "Sender not found"
    ELSE None

\* Lines 381-396.  `bound` is history: whether the sender's id was in
\* onlineUsers when the send arrived.
privateMessage(s, to, message) ==
    /\ s \notin closed
    /\ Admit /\ Cardinality(tasks) < MaxTasks
    /\ IF refusal(s, message) # None
       THEN /\ logged' = logged \cup {refusal(s, message)}
            /\ tasks' = tasks
       ELSE /\ logged' = logged
            /\ tasks' = tasks \cup
                  {Task("privateMessage", nEvents + 1, s, "create",
                        [NoFields EXCEPT !.to = to, !.body = message,
                                         !.bound = onlineUsers[userId[s]] # None])}
    /\ UNCHANGED <<onlineUsers, userId, closed, messages, inbox, now, sendLog>>

\* Mutant of pmCatch: the failure is logged and not emitted.
pmCatchSilent(t) ==
    /\ inbox' = inbox
    /\ tasks' = tasks \ {t}
    /\ sendLog' = IF t.id = 0 THEN sendLog
                  ELSE [sendLog EXCEPT ![t.id].end = "error"]
    /\ UNCHANGED <<onlineUsers, userId, closed, messages, now, nEvents, logged>>

\* Lines 454-457: the catch, entered when an await rejects.
pmCatch(t) ==
    /\ inbox' = Emit(inbox, t.s, ErrorPacket)
    /\ tasks' = tasks \ {t}
    /\ sendLog' = IF t.id = 0 THEN sendLog
                  ELSE [sendLog EXCEPT ![t.id].end = "error"]
    /\ UNCHANGED <<onlineUsers, userId, closed, messages, now, nEvents, logged>>

\* Lines 396-411: findById has answered (or rejected); the handler builds the
\* document from socket.userId as it is now and from new Date(), and issues
\* the save.  Every new Date() here reads a later clock value.
pmCreate(t, ok) ==
    /\ t \in tasks /\ t.h = "privateMessage" /\ t.pc = "create"
    /\ IF ok
       THEN /\ now' = now + 1
            /\ tasks' = (tasks \ {t}) \cup
                  {[t EXCEPT !.pc = "insert", !.from = userId[t.s],
                             !.ts = now + 1]}
            /\ UNCHANGED <<onlineUsers, userId, closed, messages, inbox,
                           nEvents, logged, sendLog>>
       ELSE pmCatch(t)

\* Mutant of newMessage: the document is built already delivered.
newMessageDelivered(t) ==
    [from |-> t.from, to |-> t.to, message |-> trim(t.body),
     timestamp |-> t.ts, status |-> "delivered", seen |-> FALSE]

\* The document as lines 403-409 build it; seen takes the schema default.
newMessage(t) ==
    [from |-> t.from, to |-> t.to, message |-> trim(t.body),
     timestamp |-> t.ts, status |-> "sent", seen |-> FALSE]

\* Line 411: the store inserts the document, or the save rejects.
pmInsert(t, ok) ==
    /\ t \in tasks /\ t.h = "privateMessage" /\ t.pc = "insert"
    /\ IF ok
       THEN /\ messages' = Append(messages, newMessage(t))
            /\ sendLog' = Append(sendLog,
                  [bound |-> t.bound, rcpt |-> "unread", end |-> "open"])
            /\ tasks' = (tasks \ {t}) \cup
                  {[t EXCEPT !.pc = "resolve", !.id = Len(messages) + 1]}
            /\ UNCHANGED <<onlineUsers, userId, closed, inbox, now, nEvents,
                           logged>>
       ELSE pmCatch(t)

\* onlineUsers.get(to)
resolve(to) == onlineUsers[to]

\* Lines 414-431 and 441-450: the handler resumes, reads the registry, and
\* either issues the second save or echoes status 'sent' and ends.
pmResolve(t) ==
    /\ t \in tasks /\ t.h = "privateMessage" /\ t.pc = "resolve"
    /\ IF resolve(t.to) # None
       THEN /\ tasks' = (tasks \ {t}) \cup
                  {[t EXCEPT !.pc = "update", !.rcpt = resolve(t.to),
                             !.fromId = userId[t.s]]}
            /\ inbox' = inbox
            /\ sendLog' = [sendLog EXCEPT ![t.id].rcpt = resolve(t.to)]
       ELSE /\ tasks' = tasks \ {t}
            /\ inbox' = Emit(inbox, t.s,
                             MessagePacket(t.id, userId[t.s], "sent", TRUE))
            /\ sendLog' = [sendLog EXCEPT ![t.id].rcpt = None,
                                          ![t.id].end = "sent"]
    /\ UNCHANGED <<onlineUsers, userId, closed, messages, now, nEvents, logged>>

\* Line 431: the store sets the document's status (save() writes the
\* modified path only), or the save rejects.
pmUpdate(t, ok) ==
    /\ t \in tasks /\ t.h = "privateMessage" /\ t.pc = "update"
    /\ IF ok
       THEN /\ messages' = updateStatus(t.id, "delivered")
            /\ tasks' = (tasks \ {t}) \cup {[t EXCEPT !.pc = "push"]}
            /\ UNCHANGED <<onlineUsers, userId, closed, inbox, now, nEvents,
                           logged, sendLog>>
       ELSE pmCatch(t)

\* Mutant of pmPush: the echo is built from messageData as line 420 set it.
pmPushStaleEcho(t) ==
    /\ t \in tasks /\ t.h = "privateMessage" /\ t.pc = "push"
    /\ inbox' = Emit(Emit(inbox, t.rcpt,
                          MessagePacket(t.id, t.fromId, "delivered", FALSE)),
                     t.s, MessagePacket(t.id, t.fromId, "sent", TRUE))
    /\ tasks' = tasks \ {t}
    /\ sendLog' = [sendLog EXCEPT ![t.id].end = "delivered"]
    /\ UNCHANGED <<onlineUsers, userId, closed, messages, now, nEvents, logged>>

\* Lines 432-450: push to the recipient's socket, then echo to the sender.
pmPush(t) ==
    /\ t \in tasks /\ t.h = "privateMessage" /\ t.pc = "push"
    /\ inbox' = Emit(Emit(inbox, t.rcpt,
                          MessagePacket(t.id, t.fromId, "delivered", FALSE)),
                     t.s, MessagePacket(t.id, t.fromId, "delivered", TRUE))
    /\ tasks' = tasks \ {t}
    /\ sendLog' = [sendLog EXCEPT ![t.id].end = "delivered"]
    /\ UNCHANGED <<onlineUsers, userId, closed, messages, now, nEvents, logged>>

----------------------------------------------------------------------------
Next ==
    \/ \E s \in Sockets, uid \in Ids : register(s, uid)
    \/ \E t \in tasks, ok \in BOOLEAN : registerFind(t, ok)
    \/ \E t \in tasks : registerDrain(t)
    \/ \E s \in Sockets : disconnect(s)
    \/ \E s \in Sockets, to \in Ids : typing(s, to)
    \/ \E s \in Sockets, id \in 1..Len(messages), st \in Statuses :
          messageStatusUpdate(s, id, st)
    \/ \E me \in Users, other \in Ids : getMessages(me, other)
    \/ \E s \in Sockets, to \in Ids, m \in Bodies : privateMessage(s, to, m)
    \/ \E t \in tasks, ok \in BOOLEAN : pmCreate(t, ok)
    \/ \E t \in tasks, ok \in BOOLEAN : pmInsert(t, ok)
    \/ \E t \in tasks : pmResolve(t)
    \/ \E t \in tasks, ok \in BOOLEAN : pmUpdate(t, ok)
    \/ \E t \in tasks : pmPush(t)

Spec == Init /\ [][Next]_vars

\* The same program from the state in which a sender is online: the part of
\* Spec that follows that state, and the same with MaxEvents events to come.
SpecRegistered == InitRegistered /\ [][Next]_vars
SpecOnline == InitOnline /\ [][Next]_vars
----------------------------------------------------------------------------
\* Vocabulary of the properties

\* Handler invocation t has ended in this step.
Ended(t) == \A u \in tasks' : u.n # t.n

\* Handler invocation t has moved to pc in this step.
MovedTo(t, pc) == \E u \in tasks' : u.n = t.n /\ u.pc = pc

IsSend(t) == t.h = "privateMessage"
IsRegister(t) == t.h = "register"

\* A privateMessage packet as the recipient sees it (sent: false), live or
\* replayed.
IsPush(p, id) == p.ev = "privateMessage" /\ p.id = id /\ ~p.sent
IsLive(p) == p.ev = "privateMessage" /\ ~p.sent /\ p.status # None
IsReplay(p) == p.ev = "privateMessage" /\ ~p.sent /\ p.status = None

PushCount(s, id) ==
    Cardinality({i \in 1..Len(inbox[s]) : IsPush(inbox[s][i], id)})

\* The packets socket s is sent in this step.
Sent(s) == SubSeq(inbox'[s], Len(inbox[s]) + 1, Len(inbox'[s]))

\* sent < delivered < read
Rank(status) ==
    CASE status = "sent" -> 0 [] status = "delivered" -> 1 [] status = "read" -> 2

AllWhitespace(m) == \A i \in 1..Len(m) : m[i] = SP

----------------------------------------------------------------------------
\* C1.  Compare-and-unbind: a disconnect of socket s leaves every registry
\* entry whose handle is another socket as it was; in particular, once s2 has
\* superseded s1 for user u, the disconnect of s1 leaves u bound to s2.
C1_CompareAndUnbind ==
    [][\A s \in Sockets, u \in Ids :
          (s \in closed' /\ s \notin closed /\ onlineUsers[u] \notin {None, s})
             => onlineUsers'[u] = onlineUsers[u]]_vars

----------------------------------------------------------------------------
\* C2.  A send whose recipient was bound when the send resolved it, and whose
\* saves succeed, ends with the stored status 'delivered' and with an echo to
\* the sender that carries 'delivered'.
EchoCarries(t, status) ==
    t.s \notin closed =>
        /\ inbox'[t.s] # << >>
        /\ inbox'[t.s][Len(inbox'[t.s])] = MessagePacket(t.id, t.fromId, status, TRUE)

\* The claim as stated, but for one allowance: a stored status below
\* 'delivered' at the end of the send can only come from a backward status
\* update (C5) and is let pass here.
C2_DeliveredAtEnd ==
    [][\A t \in tasks :
          (IsSend(t) /\ t.pc = "push" /\ Ended(t))
             => /\ Rank(messages'[t.id].status) <= Rank("delivered")
                /\ EchoCarries(t, "delivered")]_vars

\* C2, amended.  For such a send, the status save stores 'delivered', the
\* send writes nothing to the store after it, and the echo to the sender
\* carries 'delivered'.  (So the stored status at the end of the send is
\* 'delivered' unless a thread fetch or a status update changed it after
\* that save.)
C2_DeliveredSavedAndEchoed ==
    [][\A t \in tasks :
          /\ (IsSend(t) /\ t.pc = "update" /\ MovedTo(t, "push"))
                => messages'[t.id].status = "delivered"
          /\ (IsSend(t) /\ t.pc = "push" /\ Ended(t))
                => /\ messages' = messages
                   /\ EchoCarries(t, "delivered")]_vars

\* A send to a bound recipient has ended and its echo has reached the sender.
C2_Witness ==
    \E id \in 1..Len(sendLog), s \in Sockets :
        /\ sendLog[id].end = "delivered"
        /\ \E i \in 1..Len(inbox[s]) :
              inbox[s][i] = MessagePacket(id, messages[id].from, "delivered", TRUE)

----------------------------------------------------------------------------
\* C3.  When the recipient was bound at the time the send resolved it, the
\* socket it was bound to is never sent the message twice, and once the send
\* has ended with that socket still open it has been sent the message once.
\* Stated for a recipient other than the sender.
C3_ExactlyOnePush ==
    \A id \in 1..Len(sendLog) :
        (sendLog[id].rcpt \in Sockets /\ messages[id].from # messages[id].to) =>
            /\ PushCount(sendLog[id].rcpt, id) <= 1
            /\ (sendLog[id].end = "delivered" /\ sendLog[id].rcpt \notin closed)
                  => PushCount(sendLog[id].rcpt, id) = 1

----------------------------------------------------------------------------
\* C4.  A send that finds its recipient unbound ends with the stored message
\* at status 'sent' and pending for the recipient (addressed to it, not
\* seen), and sends nothing but the echo to the sender.
OnlyEcho(t, status) ==
    \A s \in Sockets :
        Sent(s) = IF s = t.s /\ s \notin closed
                  THEN <<MessagePacket(t.id, userId[t.s], status, TRUE)>>
                  ELSE << >>

\* The claim as stated.
C4_QueuedAtEnd ==
    [][\A t \in tasks :
          (IsSend(t) /\ t.pc = "resolve" /\ Ended(t))
             => /\ messages'[t.id].status = "sent"
                /\ messages'[t.id].to = t.to /\ ~messages'[t.id].seen
                /\ OnlyEcho(t, "sent")]_vars

\* C4, amended.  The send stores the message with status 'sent', addressed
\* to the recipient and not seen; when it then finds the recipient unbound it
\* writes nothing more to the store and sends nothing but the echo, which
\* carries 'sent'.  (So at the end of the send the message is at 'sent' and
\* pending unless a thread fetch or a status update changed it after the
\* insert.)
C4_QueuedAsInserted ==
    [][\A t \in tasks :
          /\ (IsSend(t) /\ t.pc = "insert" /\ MovedTo(t, "resolve"))
                => /\ Len(messages') = Len(messages) + 1
                   /\ messages'[Len(messages')].status = "sent"
                   /\ messages'[Len(messages')].to = t.to
                   /\ ~messages'[Len(messages')].seen
                   /\ findPending(t.to)' =
                         Append(findPending(t.to), Len(messages'))
          /\ (IsSend(t) /\ t.pc = "resolve" /\ Ended(t))
                => /\ messages' = messages
                   /\ OnlyEcho(t, "sent")]_vars

\* A send has found its recipient unbound and ended; its message is pending.
C4_Witness ==
    \E id \in 1..Len(sendLog) :
        /\ sendLog[id].rcpt = None /\ sendLog[id].end = "sent"
        /\ id \in {findPending(messages[id].to)[i] :
                     i \in 1..Len(findPending(messages[id].to))}

----------------------------------------------------------------------------
\* C5.  A status update that would move a message backward in the order
\* sent < delivered < read leaves the stored record unchanged.
C5_BackwardRejected ==
    [][\A s \in Sockets, id \in 1..Len(messages), st \in Statuses :
          (messageStatusUpdate(s, id, st) /\ Rank(st) < Rank(messages[id].status))
             => messages' = messages]_vars

----------------------------------------------------------------------------
\* C6.  A replay pushes the pending messages in ascending creation time: of
\* two messages created at different times, the earlier is pushed first.
C6_ReplayInCreationOrder ==
    [][\A t \in tasks :
          (IsRegister(t) /\ t.pc = "drain" /\ Ended(t))
             => \A i, j \in 1..Len(Sent(t.s)) :
                   i < j => messages[Sent(t.s)[i].id].timestamp
                               <= messages[Sent(t.s)[j].id].timestamp]_vars

----------------------------------------------------------------------------
\* C7.  When a registration replays a message that was sent while its
\* recipient was unbound, the socket has been sent no live message and no
\* typing signal since it registered.
Queued(id) == sendLog[id].rcpt = None

C7_ReplayBeforeOtherTraffic ==
    [][\A t \in tasks :
          (/\ IsRegister(t) /\ t.pc = "drain" /\ Ended(t)
           /\ \E i \in 1..Len(Sent(t.s)) : Queued(Sent(t.s)[i].id))
             => \A k \in (t.mark + 1)..Len(inbox[t.s]) :
                   ~IsLive(inbox[t.s][k]) /\ inbox[t.s][k].ev # "typing"]_vars

----------------------------------------------------------------------------
\* C8.  A send whose body is empty or all whitespace persists nothing, sends
\* nothing, leaves the registry as it was and suspends no handler; and no
\* stored message has such a body.
C8_BlankRejected ==
    /\ [](\A id \in 1..Len(messages) : ~AllWhitespace(messages[id].message))
    /\ [][\A s \in Sockets, to \in Ids, m \in Bodies :
             (privateMessage(s, to, m) /\ AllWhitespace(m))
                => UNCHANGED <<messages, inbox, onlineUsers, tasks>>]_vars

\* A blank send from a registered, bound sender has been refused.
C8_Witness ==
    /\ "Empty message" \in logged
    /\ messages = << >> /\ tasks = {}
    /\ \E s \in Sockets : s \notin closed /\ userId[s] \in Users
                          /\ onlineUsers[userId[s]] = s

----------------------------------------------------------------------------
\* C9.  Every stored message comes from a send whose sender's id was bound
\* in the registry when the send arrived.
C9_UnboundSenderRejected ==
    \A id \in 1..Len(sendLog) : sendLog[id].bound

----------------------------------------------------------------------------
\* C10.  When the insert of a new message fails, the handler ends there: the
\* store is as it was, no socket is sent anything but the sender's, and the
\* sender's socket, if open, is sent an error.
InsertFailed(t) ==
    IsSend(t) /\ t.pc = "insert" /\ Ended(t)

C10_FailedInsertAborts ==
    [][\A t \in tasks :
          InsertFailed(t)
             => /\ messages' = messages
                /\ sendLog' = sendLog
                /\ \A s \in Sockets :
                      Sent(s) = IF s = t.s /\ s \notin closed
                                THEN <<ErrorPacket>> ELSE << >>]_vars

\* Every document built so far failed to insert, and an error has reached a
\* sender.
C10_Witness ==
    /\ now > 0 /\ messages = << >> /\ tasks = {}
    /\ \E s \in Sockets : \E i \in 1..Len(inbox[s]) : inbox[s][i] = ErrorPacket

----------------------------------------------------------------------------
\* C11.  Every send that has stored its message ends by sending its echo to
\* the sender's socket (if that socket is still open): a privateMessage
\* packet for that message with sent: true, carrying 'delivered' when the
\* send's status save was applied and 'sent' otherwise.  This whether the
\* recipient was bound or not, and whether the status save succeeds or not.
EchoedStatus(t) == IF t.pc = "push" THEN "delivered" ELSE "sent"

C11_EchoAlways ==
    [][\A t \in tasks :
          (IsSend(t) /\ t.id # 0 /\ Ended(t) /\ t.s \notin closed)
             => \E i \in 1..Len(Sent(t.s)) :
                   /\ Sent(t.s)[i].ev = "privateMessage"
                   /\ Sent(t.s)[i].id = t.id
                   /\ Sent(t.s)[i].sent
                   /\ Sent(t.s)[i].status = EchoedStatus(t)]_vars

----------------------------------------------------------------------------
\* C12.  Two sends submitted on one socket, u before t, are stored in that
\* order and pushed to a shared recipient socket in that order: u's message
\* is not inserted after t's, and once both have saved 'delivered' for the
\* same open recipient socket, t does not push before u.
SubmittedBefore(u, t) == IsSend(u) /\ IsSend(t) /\ u.s = t.s /\ u.n < t.n

C12_PerSenderOrder ==
    [][\A u, t \in tasks :
          SubmittedBefore(u, t) =>
             /\ ~(u.pc = "insert" /\ MovedTo(u, "resolve") /\ t.id # 0)
             /\ ~(/\ t.pc = "push" /\ Ended(t)
                  /\ u.pc = "push" /\ u.rcpt = t.rcpt /\ t.rcpt \notin closed)]_vars

----------------------------------------------------------------------------
\* C13.  Unbinding is idempotent: in the state a disconnect of socket s
\* leaves, unbinding s once more would leave the registry as it is.
C13_UnbindIdempotent ==
    [][\A s \in Sockets :
          (s \in closed' /\ s \notin closed) => unbind(s)' = onlineUsers']_vars

\* A socket that registered a user and was superseded by another socket for
\* that user has closed.
C13_Witness ==
    \E s, r \in Sockets :
        /\ s # r /\ s \in closed /\ r \notin closed
        /\ userId[s] \in Users /\ userId[r] = userId[s]

----------------------------------------------------------------------------
\* C14.  No step lowers a stored message's status in the order
\* sent < delivered < read; in particular the status save of a send does not
\* set a message back to 'delivered' that a thread fetch has marked read.
\* The explicit status update is left to C5: its steps are let pass here.
IsStatusUpdate ==
    \E s \in Sockets, id \in 1..Len(messages), st \in Statuses :
        messageStatusUpdate(s, id, st)

C14_StatusNeverRegresses ==
    [][\/ IsStatusUpdate
       \/ \A id \in 1..Len(messages) :
             Rank(messages'[id].status) >= Rank(messages[id].status)]_vars

----------------------------------------------------------------------------
\* C15.  Every stored message is seen exactly when its status is 'read'.
C15_SeenIffRead ==
    \A id \in 1..Len(messages) :
        messages[id].seen <=> messages[id].status = "read"

----------------------------------------------------------------------------
\* C16.  The registry maps no user id to a socket that has closed.
C16_NoClosedHandle ==
    \A u \in Ids : onlineUsers[u] \notin closed

----------------------------------------------------------------------------
\* C17.  No socket is the registry's handle for two different user ids.
C17_OneIdentityPerSocket ==
    \A u, v \in Ids :
        (u # v /\ onlineUsers[u] # None) => onlineUsers[u] # onlineUsers[v]

----------------------------------------------------------------------------
\* C18.  The sender id and the recipient id of every stored message are ids
\* of known users.
C18_KnownParties ==
    \A id \in 1..Len(messages) :
        messages[id].from \in Users /\ messages[id].to \in Users

----------------------------------------------------------------------------
\* C19.  The messages a registration of user U replays are the stored
\* messages addressed to U whose status is not 'read', as the store holds
\* them when it answers the registration's query.
Unread(uid) ==
    {id \in 1..Len(messages) :
        messages[id].to = uid /\ messages[id].status # "read"}

Pending(t) == {t.pending[i] : i \in 1..Len(t.pending)}

C19_ReplaySetIsUnread ==
    [][\A t \in tasks :
          (IsRegister(t) /\ t.pc = "find")
             => \A u \in tasks' :
                   (u.n = t.n /\ u.pc = "drain") => Pending(u) = Unread(t.uid)]_vars

----------------------------------------------------------------------------
\* C20.  A typing signal for a recipient bound in the registry is sent to the
\* socket the registry holds for it (and goes nowhere if that socket has
\* closed); a signal for an unbound recipient is sent to no socket.  Either
\* way the registry and the store are as before and no handler is left
\* suspended; and a typing packet is only ever sent in the step that handles
\* its signal, so a dropped signal is not delivered later.
Forwarded(s, to) ==
    \A r \in Sockets :
        Sent(r) = IF r = onlineUsers[to] /\ r \notin closed
                  THEN <<TypingPacket(userId[s])>>
                  ELSE << >>

C20_TypingRelay ==
    /\ [][\A s \in Sockets, to \in Ids :
             typing(s, to)
                => /\ Forwarded(s, to)
                   /\ UNCHANGED <<onlineUsers, messages, tasks>>]_vars
    /\ [][\A r \in Sockets :
             (\E i \in 1..Len(Sent(r)) : Sent(r)[i].ev = "typing")
                => \E s \in Sockets, to \in Ids :
                      typing(s, to) /\ onlineUsers[to] = r]_vars

\* A typing signal from a registered sender has been forwarded to the socket
\* the registry holds for its recipient, and nothing has been stored.
C20_Witness ==
    /\ messages = << >> /\ tasks = {}
    /\ \E u \in Users :
          /\ onlineUsers[u] \in Sockets
          /\ \E i \in 1..Len(inbox[onlineUsers[u]]) :
                /\ inbox[onlineUsers[u]][i].ev = "typing"
                /\ inbox[onlineUsers[u]][i].from \in Users

----------------------------------------------------------------------------
\* C21.  A replay changes no stored message and sends nothing but replay
\* packets to the registering socket; and the status and the seen flag of a
\* message that has been replayed change only in a step of an explicit
\* status update or of a thread fetch.
Replayed(id) ==
    \E s \in Sockets : \E i \in 1..Len(inbox[s]) :
        IsReplay(inbox[s][i]) /\ inbox[s][i].id = id

IsThreadFetch == \E me \in Users, other \in Ids : getMessages(me, other)

\* A step of the suspended register handler t: the store answers its query,
\* or it resumes and emits, or it ends in its catch.
ReplayStep(t) == IsRegister(t) /\ t \notin tasks'

ReplayFrame ==
    \A t \in tasks :
        ReplayStep(t) =>
            /\ messages' = messages
            /\ \A s \in Sockets :
                  /\ s # t.s => Sent(s) = << >>
                  /\ \A i \in 1..Len(Sent(s)) : IsReplay(Sent(s)[i])

Touched(id) ==
    \/ messages'[id].status # messages[id].status
    \/ messages'[id].seen # messages[id].seen

\* The claim as stated.
C21_ReplayedChangesOnlyByUpdate ==
    [][/\ ReplayFrame
       /\ \A id \in 1..Len(messages) :
             (Replayed(id) /\ Touched(id)) => (IsStatusUpdate \/ IsThreadFetch)]_vars

\* The status save of the send that stored message id is applied.
IsStatusSave(id) ==
    \E t \in tasks :
        IsSend(t) /\ t.id = id /\ t.pc = "update" /\ MovedTo(t, "push")

\* C21, amended.  A replay changes no stored message and sends nothing but
\* replay packets to the registering socket; the status and the seen flag of
\* a replayed message change only in a step of an explicit status update, of
\* a thread fetch, or of the status save of the send that stored it, when
\* that send was still in progress at the replay.
C21_ReplayMutatesNothing ==
    [][/\ ReplayFrame
       /\ \A id \in 1..Len(messages) :
             (Replayed(id) /\ Touched(id))
                => (IsStatusUpdate \/ IsThreadFetch \/ IsStatusSave(id))]_vars

\* A message queued for an unbound recipient has been replayed to a socket
\* other than its sender's, and is stored as the send left it.
C21_Witness ==
    \E id \in 1..Len(messages) :
        /\ Replayed(id) /\ Queued(id) /\ tasks = {}
        /\ messages[id].status = "sent" /\ ~messages[id].seen
        /\ messages[id].from # messages[id].to

====
